---- MODULE Spec2Model ----
(***************************************************************************)
(* Model of src/postgis/mod.rs: the Postgis image description, a wrapper   *)
(* that owns one Postgres image description, forwards every builder call   *)
(* and every Image accessor to it, and overrides the image name and tag.   *)
(*                                                                         *)
(* The wrapped Postgres type lives in super::postgres, outside the source  *)
(* at hand; the Postgres_* operators model it from its documented          *)
(* contract (environment map, ordered init scripts, fsync flag).           *)
(***************************************************************************)
EXTENDS Naturals, Sequences, FiniteSets

VARIABLES
    pgis,        \* main line: the Postgis value being built
    pg,          \* main line: a Postgres value given the same builder calls
    prev,        \* main line: the Postgis value before the latest builder call
    calls,       \* main line: the builder calls made so far, oldest first
    store,       \* branching: the Postgis values alive, one per slot
    kept,        \* branching: slot of the retained common configuration
    left,        \* branching: slot of the first derived configuration (0: none)
    right,       \* branching: slot of the second derived configuration (0: none)
    commonCalls, \* branching: builder calls made on the common configuration
    leftCalls,   \* branching: builder calls made on the first derived one
    rightCalls   \* branching: builder calls made on the second derived one

mainVars == <<pgis, pg, prev, calls>>
branchVars == <<store, kept, left, right, commonCalls, leftCalls, rightCalls>>
vars == <<pgis, pg, prev, calls, store, kept, left, right,
          commonCalls, leftCalls, rightCalls>>

(***************************************************************************)
(* Bounds and argument domains.                                            *)
(***************************************************************************)
MaxCalls == 3
MaxBranchCalls == 3
MaxCommonCalls == 1

DbNames == {"", "geo"}
Users == {"", "admin"}
Passwords == {"", "secret"}

\* CopyDataSource: inline bytes or a path resolved when the runtime stages it.
Data(bytes) == [kind |-> "Data", val |-> bytes]
File(path) == [kind |-> "File", val |-> path]
InitSqls == {Data(""), Data("CREATE EXTENSION IF NOT EXISTS hstore;"),
             File("path_to_init.sql")}

(***************************************************************************)
(* The wrapped Postgres image description.                                 *)
(***************************************************************************)
Postgres_NAME == "postgres"
Postgres_TAG == "11-alpine"
INIT_DIR == "/docker-entrypoint-initdb.d"

\* HashMap::insert on a map kept as a set of <<key, value>> pairs.
MapInsert(m, k, v) == {e \in m : e[1] # k} \cup {<<k, v>>}

Postgres_default ==
    [env_vars |-> {<<"POSTGRES_DB", "postgres">>,
                   <<"POSTGRES_USER", "postgres">>,
                   <<"POSTGRES_PASSWORD", "postgres">>},
     copy_to_sources |-> <<>>,
     fsync_enabled |-> FALSE]

Postgres_with_host_auth(self) ==
    [self EXCEPT !.env_vars = MapInsert(@, "POSTGRES_HOST_AUTH_METHOD", "trust")]

Postgres_with_db_name(self, db_name) ==
    [self EXCEPT !.env_vars = MapInsert(@, "POSTGRES_DB", db_name)]

Postgres_with_user(self, user) ==
    [self EXCEPT !.env_vars = MapInsert(@, "POSTGRES_USER", user)]

Postgres_with_password(self, password) ==
    [self EXCEPT !.env_vars = MapInsert(@, "POSTGRES_PASSWORD", password)]

Postgres_with_init_sql(self, init_sql) ==
    [self EXCEPT !.copy_to_sources =
        Append(@, [source |-> init_sql,
                   target |-> [dir |-> INIT_DIR, index |-> Len(@)]])]

Postgres_with_fsync_enabled(self) ==
    [self EXCEPT !.fsync_enabled = TRUE]

Postgres_name(self) == Postgres_NAME
Postgres_tag(self) == Postgres_TAG

Postgres_ready_conditions(self) ==
    <<[stream |-> "stderr",
       message |-> "database system is ready to accept connections"],
      [stream |-> "stdout",
       message |-> "database system is ready to accept connections"]>>

Postgres_env_vars(self) == self.env_vars
Postgres_copy_to_sources(self) == self.copy_to_sources
Postgres_cmd(self) ==
    IF self.fsync_enabled THEN <<>> ELSE <<"-c", "fsync=off">>

(***************************************************************************)
(* Postgis: struct Postgis(Postgres), field 0 is written `inner`.          *)
(***************************************************************************)
NAME == "postgis/postgis"
TAG == "17-3.5"

Postgis(inner) == [inner |-> inner]

Postgis_default == Postgis(Postgres_default)

\* Faulty variant: configures a fresh base instead of the one it owns.
Postgis_with_host_auth_fresh(self) ==
    Postgis(Postgres_with_host_auth(Postgres_default))

Postgis_with_host_auth(self) == Postgis(Postgres_with_host_auth(self.inner))

\* Faulty variant: forwards to the neighbouring setter.
Postgis_with_db_name_sets_user(self, db_name) ==
    Postgis(Postgres_with_user(self.inner, db_name))

Postgis_with_db_name(self, db_name) ==
    Postgis(Postgres_with_db_name(self.inner, db_name))

\* Faulty variant: forwards to the neighbouring setter.
Postgis_with_user_sets_password(self, user) ==
    Postgis(Postgres_with_password(self.inner, user))

\* Faulty variant: rejects an empty user and keeps the old one.
Postgis_with_user_nonempty(self, user) ==
    IF user = "" THEN self ELSE Postgis(Postgres_with_user(self.inner, user))

Postgis_with_user(self, user) == Postgis(Postgres_with_user(self.inner, user))

\* Faulty variant: forwards to the accumulating builder.
Postgis_with_password_as_init_sql(self, password) ==
    Postgis(Postgres_with_init_sql(self.inner, Data(password)))

Postgis_with_password(self, password) ==
    Postgis(Postgres_with_password(self.inner, password))

\* Faulty variant: configures a fresh base instead of the one it owns.
Postgis_with_init_sql_fresh(self, init_sql) ==
    Postgis(Postgres_with_init_sql(Postgres_default, init_sql))

Postgis_with_init_sql(self, init_sql) ==
    Postgis(Postgres_with_init_sql(self.inner, init_sql))

\* Faulty variant: returns the receiver without forwarding.
Postgis_with_fsync_enabled_noop(self) == self

Postgis_with_fsync_enabled(self) ==
    Postgis(Postgres_with_fsync_enabled(self.inner))

\* Faulty variant: forwards the identity like every other accessor.
Postgis_name_of_inner(self) == Postgres_name(self.inner)

\* Faulty variant: the accessor is not forwarded, the trait's empty default shows.
Postgis_copy_to_sources_none(self) == <<>>

Postgis_name(self) == NAME
Postgis_tag(self) == TAG
Postgis_ready_conditions(self) == Postgres_ready_conditions(self.inner)
Postgis_env_vars(self) == Postgres_env_vars(self.inner)
Postgis_copy_to_sources(self) == Postgres_copy_to_sources(self.inner)
Postgis_cmd(self) == Postgres_cmd(self.inner)

(***************************************************************************)
(* Builder calls as values, and what a configuration lets a runtime see.   *)
(***************************************************************************)
Str(s) == [kind |-> "Str", val |-> s]
NoArg == [kind |-> "None", val |-> ""]
Call(op, arg) == [op |-> op, arg |-> arg]

AllCalls ==
    {Call("with_host_auth", NoArg), Call("with_fsync_enabled", NoArg)}
    \cup {Call("with_db_name", Str(n)) : n \in DbNames}
    \cup {Call("with_user", Str(u)) : u \in Users}
    \cup {Call("with_password", Str(w)) : w \in Passwords}
    \cup {Call("with_init_sql", q) : q \in InitSqls}

\* The calls used when two configurations are derived from a common one.
BranchCalls ==
    {Call("with_host_auth", NoArg), Call("with_fsync_enabled", NoArg),
     Call("with_db_name", Str("geo")), Call("with_user", Str("admin")),
     Call("with_init_sql", Data("")), Call("with_init_sql", File("path_to_init.sql"))}

\* One builder call on a Postgis value.
Apply(self, c) ==
    CASE c.op = "with_host_auth" -> Postgis_with_host_auth(self)
      [] c.op = "with_db_name" -> Postgis_with_db_name(self, c.arg.val)
      [] c.op = "with_user" -> Postgis_with_user(self, c.arg.val)
      [] c.op = "with_password" -> Postgis_with_password(self, c.arg.val)
      [] c.op = "with_init_sql" -> Postgis_with_init_sql(self, c.arg)
      [] c.op = "with_fsync_enabled" -> Postgis_with_fsync_enabled(self)

\* A chain of builder calls, oldest first.
RECURSIVE Replay(_, _)
Replay(self, cs) ==
    IF Len(cs) = 0 THEN self ELSE Replay(Apply(self, Head(cs)), Tail(cs))

\* Everything the Image trait exposes of a Postgis value.
Obs(self) ==
    [name |-> Postgis_name(self),
     tag |-> Postgis_tag(self),
     ready_conditions |-> Postgis_ready_conditions(self),
     env_vars |-> Postgis_env_vars(self),
     copy_to_sources |-> Postgis_copy_to_sources(self),
     cmd |-> Postgis_cmd(self)]

(***************************************************************************)
(* Main line: one Postgis value built by a chain of calls, with a Postgres *)
(* value given the same calls beside it.                                   *)
(***************************************************************************)
BranchIdle ==
    /\ store = <<Postgis_default>>
    /\ kept = 1
    /\ left = 0
    /\ right = 0
    /\ commonCalls = <<>>
    /\ leftCalls = <<>>
    /\ rightCalls = <<>>

MainIdle ==
    /\ pgis = Postgis_default
    /\ pg = Postgres_default
    /\ prev = Postgis_default
    /\ calls = <<>>

Init == MainIdle /\ BranchIdle

WithHostAuth ==
    /\ Len(calls) < MaxCalls
    /\ pgis' = Postgis_with_host_auth(pgis)
    /\ pg' = Postgres_with_host_auth(pg)
    /\ prev' = pgis
    /\ calls' = Append(calls, Call("with_host_auth", NoArg))
    /\ UNCHANGED branchVars

WithDbName ==
    /\ Len(calls) < MaxCalls
    /\ \E db_name \in DbNames :
        /\ pgis' = Postgis_with_db_name(pgis, db_name)
        /\ pg' = Postgres_with_db_name(pg, db_name)
        /\ calls' = Append(calls, Call("with_db_name", Str(db_name)))
    /\ prev' = pgis
    /\ UNCHANGED branchVars

WithUser ==
    /\ Len(calls) < MaxCalls
    /\ \E user \in Users :
        /\ pgis' = Postgis_with_user(pgis, user)
        /\ pg' = Postgres_with_user(pg, user)
        /\ calls' = Append(calls, Call("with_user", Str(user)))
    /\ prev' = pgis
    /\ UNCHANGED branchVars

WithPassword ==
    /\ Len(calls) < MaxCalls
    /\ \E password \in Passwords :
        /\ pgis' = Postgis_with_password(pgis, password)
        /\ pg' = Postgres_with_password(pg, password)
        /\ calls' = Append(calls, Call("with_password", Str(password)))
    /\ prev' = pgis
    /\ UNCHANGED branchVars

WithInitSql ==
    /\ Len(calls) < MaxCalls
    /\ \E init_sql \in InitSqls :
        /\ pgis' = Postgis_with_init_sql(pgis, init_sql)
        /\ pg' = Postgres_with_init_sql(pg, init_sql)
        /\ calls' = Append(calls, Call("with_init_sql", init_sql))
    /\ prev' = pgis
    /\ UNCHANGED branchVars

WithFsyncEnabled ==
    /\ Len(calls) < MaxCalls
    /\ pgis' = Postgis_with_fsync_enabled(pgis)
    /\ pg' = Postgres_with_fsync_enabled(pg)
    /\ prev' = pgis
    /\ calls' = Append(calls, Call("with_fsync_enabled", NoArg))
    /\ UNCHANGED branchVars

Next ==
    \/ WithHostAuth
    \/ WithDbName
    \/ WithUser
    \/ WithPassword
    \/ WithInitSql
    \/ WithFsyncEnabled

Spec == Init /\ [][Next]_vars

(***************************************************************************)
(* Branching: a common configuration is built, cloned twice, and each      *)
(* clone is configured further while the original is retained.  Values     *)
(* live in slots of `store`; a builder call consumes the value of its      *)
(* receiver's slot and leaves its result there.                            *)
(***************************************************************************)
Postgres_clone(self) == self

Postgis_clone(self) == Postgis(Postgres_clone(self.inner))

\* Faulty variant: the clone is a handle on the receiver's own value.
CloneSlot_shared(src, fresh) == src

\* Where the result of clone() lives: a value of its own, not the receiver.
CloneSlot(src, fresh) == fresh

BranchInit == MainIdle /\ BranchIdle

Configure ==
    /\ left = 0
    /\ Len(commonCalls) < MaxCommonCalls
    /\ \E c \in BranchCalls :
        /\ store' = [store EXCEPT ![kept] = Apply(store[kept], c)]
        /\ commonCalls' = Append(commonCalls, c)
    /\ UNCHANGED <<kept, left, right, leftCalls, rightCalls>>
    /\ UNCHANGED mainVars

Fork ==
    /\ left = 0
    /\ left' = CloneSlot(kept, Len(store) + 1)
    /\ right' = CloneSlot(kept, Len(store) + 2)
    /\ store' = store \o <<Postgis_clone(store[kept]), Postgis_clone(store[kept])>>
    /\ UNCHANGED <<kept, commonCalls, leftCalls, rightCalls>>
    /\ UNCHANGED mainVars

BuildLeft ==
    /\ left # 0
    /\ Len(leftCalls) + Len(rightCalls) < MaxBranchCalls
    /\ \E c \in BranchCalls :
        /\ store' = [store EXCEPT ![left] = Apply(store[left], c)]
        /\ leftCalls' = Append(leftCalls, c)
    /\ UNCHANGED <<kept, left, right, commonCalls, rightCalls>>
    /\ UNCHANGED mainVars

BuildRight ==
    /\ right # 0
    /\ Len(leftCalls) + Len(rightCalls) < MaxBranchCalls
    /\ \E c \in BranchCalls :
        /\ store' = [store EXCEPT ![right] = Apply(store[right], c)]
        /\ rightCalls' = Append(rightCalls, c)
    /\ UNCHANGED <<kept, left, right, commonCalls, leftCalls>>
    /\ UNCHANGED mainVars

BranchNext ==
    \/ Configure
    \/ Fork
    \/ BuildLeft
    \/ BuildRight

SpecBranch == BranchInit /\ [][BranchNext]_vars

(***************************************************************************)
(* Helpers for the properties.                                             *)
(***************************************************************************)
IsSetter(c) == c.op # "with_init_sql"

HasOp(cs, op) == \E i \in 1..Len(cs) : cs[i].op = op

\* The calls of cs made through builder op, oldest first.
CallsOf(cs, op) == SelectSeq(cs, LAMBDA c : c.op = op)

\* The argument of the latest call of op in cs, or dflt when there is none.
LatestArg(cs, op, dflt) ==
    IF HasOp(cs, op) THEN CallsOf(cs, op)[Len(CallsOf(cs, op))].arg.val ELSE dflt

\* The values a map (a set of <<key, value>> pairs) holds for key k.
ValuesAt(m, k) == {e[2] : e \in {f \in m : f[1] = k}}

\* A map without its entry for key k.
Without(m, k) == {e \in m : e[1] # k}

\* cs with its last two calls exchanged.
SwapLastTwo(cs) ==
    SubSeq(cs, 1, Len(cs) - 2) \o <<cs[Len(cs)], cs[Len(cs) - 1]>>

\* Two calls the order of which cannot matter: not two init scripts, and not
\* one value set twice to different arguments.
Independent(c, d) ==
    /\ ~(c.op = "with_init_sql" /\ d.op = "with_init_sql")
    /\ (c.op = d.op => c.arg = d.arg)

\* A well-formed configuration: a Postgis holding one Postgres.
IsPostgis(p) ==
    /\ DOMAIN p = {"inner"}
    /\ DOMAIN p.inner = {"env_vars", "copy_to_sources", "fsync_enabled"}
    /\ p.inner.fsync_enabled \in BOOLEAN
    /\ \A e \in p.inner.env_vars : Len(e) = 2
    /\ \A i \in 1..Len(p.inner.copy_to_sources) :
        p.inner.copy_to_sources[i].source.kind \in {"Data", "File"}

\* Every accessor yields a value of its shape.
AccessorsDefined(p) ==
    /\ Postgis_name(p) \in STRING
    /\ Postgis_tag(p) \in STRING
    /\ Len(Postgis_ready_conditions(p)) >= 0
    /\ Cardinality(Postgis_env_vars(p)) >= 0
    /\ Len(Postgis_copy_to_sources(p)) >= 0
    /\ Len(Postgis_cmd(p)) >= 0

(***************************************************************************)
(* Properties.                                                             *)
(***************************************************************************)

\* C1: after every chain of builder calls name() is "postgis/postgis" and
\* tag() is "17-3.5", and neither is the name or tag the inner Postgres
\* reports.
C1_IdentityFixed ==
    /\ Postgis_name(pgis) = "postgis/postgis"
    /\ Postgis_tag(pgis) = "17-3.5"
    /\ Postgis_name(pgis) # Postgres_name(pgis.inner)
    /\ Postgis_tag(pgis) # Postgres_tag(pgis.inner)

C1_Witness ==
    /\ Len(calls) >= 3
    /\ HasOp(calls, "with_db_name")
    /\ HasOp(calls, "with_init_sql")
    /\ Postgis_name(pgis) = NAME

\* C2: a Postgis and a Postgres given the same builder calls have the same
\* ready_conditions, env_vars, copy_to_sources and cmd, the empty chain
\* included; only name and tag differ.
C2_ForwardsBase ==
    /\ Postgis_ready_conditions(pgis) = Postgres_ready_conditions(pg)
    /\ Postgis_env_vars(pgis) = Postgres_env_vars(pg)
    /\ Postgis_copy_to_sources(pgis) = Postgres_copy_to_sources(pg)
    /\ Postgis_cmd(pgis) = Postgres_cmd(pg)
    /\ Postgis_name(pgis) # Postgres_name(pg)
    /\ Postgis_tag(pgis) # Postgres_tag(pg)

C2_Witness ==
    /\ HasOp(calls, "with_init_sql")
    /\ HasOp(calls, "with_fsync_enabled")
    /\ HasOp(calls, "with_password")
    /\ Postgis_copy_to_sources(pgis) = Postgres_copy_to_sources(pg)
    /\ Postgis_cmd(pgis) = <<>>

\* C3: copy_to_sources holds exactly the scripts of the with_init_sql calls
\* made, in call order, each in the init-script directory and none at the
\* place of another; and exchanging two different scripts given last changes
\* what is observed.
C3_InitSqlAppends ==
    LET scripts == CallsOf(calls, "with_init_sql")
        staged == Postgis_copy_to_sources(pgis)
    IN  /\ Len(staged) = Len(scripts)
        /\ \A i \in 1..Len(staged) :
            /\ staged[i].source = scripts[i].arg
            /\ staged[i].target.dir = INIT_DIR
        /\ \A i, j \in 1..Len(staged) :
            staged[i].target = staged[j].target => i = j
        /\ (/\ Len(calls) >= 2
            /\ calls[Len(calls)].op = "with_init_sql"
            /\ calls[Len(calls) - 1].op = "with_init_sql"
            /\ calls[Len(calls)].arg # calls[Len(calls) - 1].arg)
           => Obs(Replay(Postgis_default, SwapLastTwo(calls))) # Obs(pgis)

C3_Witness ==
    /\ Len(calls) >= 3
    /\ calls[1].op = "with_init_sql"
    /\ calls[2].op = "with_user"
    /\ calls[3].op = "with_init_sql"
    /\ calls[1].arg # calls[3].arg
    /\ Len(Postgis_copy_to_sources(pgis)) >= 2
    /\ Postgis_copy_to_sources(pgis)[1].source = calls[1].arg
    /\ Postgis_copy_to_sources(pgis)[2].source = calls[3].arg

\* C4: with_host_auth, with_db_name, with_user, with_password and
\* with_fsync_enabled are idempotent: made twice in a row with one argument,
\* the second call changes no accessor output, from any reachable
\* configuration.
C4_SettersIdempotent ==
    /\ \A c \in AllCalls :
        IsSetter(c) => Obs(Apply(Apply(pgis, c), c)) = Obs(Apply(pgis, c))
    /\ (/\ Len(calls) >= 2
        /\ IsSetter(calls[Len(calls)])
        /\ calls[Len(calls)] = calls[Len(calls) - 1])
       => Obs(pgis) = Obs(prev)

C4_Witness ==
    /\ Len(calls) >= 3
    /\ calls[Len(calls)].op = "with_password"
    /\ calls[Len(calls)] = calls[Len(calls) - 1]
    /\ Obs(pgis) = Obs(prev)

\* C5 as stated: any two builder calls that are not both with_init_sql give
\* the same accessor outputs in either order.
C5_AnyOrder ==
    /\ \A c, d \in AllCalls :
        ~(c.op = "with_init_sql" /\ d.op = "with_init_sql")
            => Obs(Apply(Apply(pgis, c), d)) = Obs(Apply(Apply(pgis, d), c))
    /\ (/\ Len(calls) >= 2
        /\ ~(/\ calls[Len(calls)].op = "with_init_sql"
             /\ calls[Len(calls) - 1].op = "with_init_sql"))
       => Obs(Replay(Postgis_default, SwapLastTwo(calls))) = Obs(pgis)

\* C5 amended: two builder calls give the same accessor outputs in either
\* order unless both are with_init_sql or both are the same setter with
\* different arguments (the later argument wins).
C5_IndependentCallsCommute ==
    /\ \A c, d \in AllCalls :
        Independent(c, d)
            => Obs(Apply(Apply(pgis, c), d)) = Obs(Apply(Apply(pgis, d), c))
    /\ (/\ Len(calls) >= 2
        /\ Independent(calls[Len(calls) - 1], calls[Len(calls)]))
       => Obs(Replay(Postgis_default, SwapLastTwo(calls))) = Obs(pgis)

C5_Witness ==
    /\ Len(calls) >= 3
    /\ calls[Len(calls) - 1].op = "with_user"
    /\ calls[Len(calls) - 1].arg.val = "admin"
    /\ calls[Len(calls)].op = "with_password"
    /\ calls[Len(calls)].arg.val = "secret"
    /\ Obs(Replay(Postgis_default, SwapLastTwo(calls))) = Obs(pgis)

\* C6: env_vars maps the database-name, user and password keys to the
\* argument of the latest with_db_name, with_user and with_password call
\* (the base default without one), and no key occurs twice.
C6_EnvReflectsCredentials ==
    LET env == Postgis_env_vars(pgis)
    IN  /\ ValuesAt(env, "POSTGRES_DB") =
                {LatestArg(calls, "with_db_name", "postgres")}
        /\ ValuesAt(env, "POSTGRES_USER") =
                {LatestArg(calls, "with_user", "postgres")}
        /\ ValuesAt(env, "POSTGRES_PASSWORD") =
                {LatestArg(calls, "with_password", "postgres")}
        /\ \A e, f \in env : e[1] = f[1] => e = f

C6_Witness ==
    /\ calls = <<Call("with_db_name", Str("geo")), Call("with_user", Str("admin")),
                 Call("with_password", Str("secret"))>>
    /\ <<"POSTGRES_DB", "geo">> \in Postgis_env_vars(pgis)
    /\ <<"POSTGRES_USER", "admin">> \in Postgis_env_vars(pgis)
    /\ <<"POSTGRES_PASSWORD", "secret">> \in Postgis_env_vars(pgis)

\* C7: with_host_auth puts the trust marker into env_vars and leaves every
\* other entry (user, password, db name), the staged files, the command, the
\* readiness conditions and the identity as they were.
C7_HostAuthFrame ==
    (Len(calls) >= 1 /\ calls[Len(calls)].op = "with_host_auth")
    => /\ ValuesAt(Postgis_env_vars(pgis), "POSTGRES_HOST_AUTH_METHOD") = {"trust"}
       /\ Without(Postgis_env_vars(pgis), "POSTGRES_HOST_AUTH_METHOD") =
            Without(Postgis_env_vars(prev), "POSTGRES_HOST_AUTH_METHOD")
       /\ Postgis_copy_to_sources(pgis) = Postgis_copy_to_sources(prev)
       /\ Postgis_cmd(pgis) = Postgis_cmd(prev)
       /\ Postgis_ready_conditions(pgis) = Postgis_ready_conditions(prev)
       /\ Postgis_name(pgis) = Postgis_name(prev)
       /\ Postgis_tag(pgis) = Postgis_tag(prev)

C7_Witness ==
    /\ Len(calls) = 3
    /\ calls[1] = Call("with_user", Str("admin"))
    /\ calls[2] = Call("with_password", Str("secret"))
    /\ calls[3].op = "with_host_auth"
    /\ <<"POSTGRES_HOST_AUTH_METHOD", "trust">> \in Postgis_env_vars(pgis)
    /\ <<"POSTGRES_USER", "admin">> \in Postgis_env_vars(pgis)
    /\ <<"POSTGRES_PASSWORD", "secret">> \in Postgis_env_vars(pgis)

\* C8: fsync is off in a default Postgis, on once with_fsync_enabled was
\* called whatever calls follow (a second with_fsync_enabled included), and
\* cmd shows the setting: the fsync=off option is passed exactly while it is
\* off.
C8_FsyncSticky ==
    /\ pgis.inner.fsync_enabled = HasOp(calls, "with_fsync_enabled")
    /\ Postgis_cmd(pgis) =
        IF HasOp(calls, "with_fsync_enabled") THEN <<>> ELSE <<"-c", "fsync=off">>

C8_Witness ==
    /\ Len(calls) >= 3
    /\ calls[1].op = "with_fsync_enabled"
    /\ calls[2].op = "with_db_name"
    /\ calls[3].op = "with_fsync_enabled"
    /\ Postgis_cmd(pgis) = <<>>
    /\ Postgis_cmd(Postgis_default) = <<"-c", "fsync=off">>

\* C9: every builder call on every reachable configuration, with every
\* argument (the empty ones included), yields a well-formed configuration on
\* which every accessor is defined, and the argument is taken as given, never
\* rejected.
C9_Infallible ==
    /\ IsPostgis(pgis)
    /\ AccessorsDefined(pgis)
    /\ \A c \in AllCalls :
        /\ IsPostgis(Apply(pgis, c))
        /\ AccessorsDefined(Apply(pgis, c))
    /\ \A n \in DbNames :
        <<"POSTGRES_DB", n>> \in Postgis_env_vars(Postgis_with_db_name(pgis, n))
    /\ \A u \in Users :
        <<"POSTGRES_USER", u>> \in Postgis_env_vars(Postgis_with_user(pgis, u))
    /\ \A w \in Passwords :
        <<"POSTGRES_PASSWORD", w>> \in Postgis_env_vars(Postgis_with_password(pgis, w))
    /\ \A q \in InitSqls :
        LET staged == Postgis_copy_to_sources(Postgis_with_init_sql(pgis, q))
        IN  Len(staged) >= 1 /\ staged[Len(staged)].source = q

C9_Witness ==
    /\ Len(calls) >= 3
    /\ calls[1] = Call("with_db_name", Str(""))
    /\ calls[2] = Call("with_user", Str(""))
    /\ calls[3] = Call("with_init_sql", Data(""))
    /\ <<"POSTGRES_DB", "">> \in Postgis_env_vars(pgis)
    /\ <<"POSTGRES_USER", "">> \in Postgis_env_vars(pgis)
    /\ IsPostgis(pgis)

\* C10: of two configurations derived from clones of a common one, each shows
\* what the common configuration followed by its own calls gives, and the
\* retained common configuration shows what it showed when it was cloned.
C10_BranchesIndependent ==
    left # 0 =>
        LET common == Replay(Postgis_default, commonCalls)
        IN  /\ Obs(store[kept]) = Obs(common)
            /\ Obs(store[left]) = Obs(Replay(common, leftCalls))
            /\ Obs(store[right]) = Obs(Replay(common, rightCalls))

C10_Witness ==
    /\ left # 0
    /\ Len(commonCalls) >= 1
    /\ Len(leftCalls) >= 1
    /\ Len(rightCalls) >= 1
    /\ Obs(store[left]) # Obs(store[right])
    /\ Obs(store[left]) # Obs(store[kept])
    /\ Obs(store[right]) # Obs(store[kept])

====
